---- MODULE Spec2Model ----
(***************************************************************************)
(* DIDComm mediator coordination: the mediator-role and recipient-role     *)
(* message handlers of packages/did-comm, the message store of             *)
(* packages/data-store, and the store / DID-manager ports they call.       *)
(*                                                                         *)
(* One agent hosts the whole chain, as in the repository's test:           *)
(* [CoordinateMediationMediatorMessageHandler,                             *)
(*  CoordinateMediationRecipientMessageHandler].                           *)
(***************************************************************************)
EXTENDS Integers, Sequences, FiniteSets, TLC

\* ------------------------------------------------------------------ bounds
\* Number of messages (inbound or saved) a behaviour goes through.
MaxMessages == 3
\* Longest body.updates list of an inbound recipient-update.
MaxUpdates == 2
\* Number of recipient-update messages a behaviour goes through.
MaxUpdateMessages == 2
\* Number of registry store calls the recipient-updates of a behaviour start.
MaxStoreCalls == 3

\* ------------------------------------------------------------- vocabulary
\* A field that is absent from a JavaScript object.
Undefined == "undefined"

RecipientDid == "did:fake:recipient"
MediatorDid == "did:fake:mediator"
\* A DID the agent's DID manager does not hold.
ForeignDid == "did:fake:foreign"

Dids == {RecipientDid, MediatorDid, ForeignDid}
ManagedDids == {RecipientDid, MediatorDid}
DidOrUndefined == Dids \cup {Undefined}

\* The dids a recipient registers with its mediator.
RecipientDids == {"did:fake:test00", "did:fake:test01"}

\* thid / id values: -1 is an absent field, 0 the empty string.
NoId == -1
EmptyId == 0
\* Every message takes two ids: its own and the one of the response to it.
MaxId == 2 * MaxMessages

MEDIATE_REQUEST == "https://didcomm.org/coordinate-mediation/3.0/mediate-request"
MEDIATE_GRANT == "https://didcomm.org/coordinate-mediation/3.0/mediate-grant"
MEDIATE_DENY == "https://didcomm.org/coordinate-mediation/3.0/mediate-deny"
RECIPIENT_UPDATE == "https://didcomm.org/coordinate-mediation/3.0/recipient-update"
RECIPIENT_UPDATE_RESPONSE == "https://didcomm.org/coordinate-mediation/3.0/recipient-update-response"
RECIPIENT == "https://didcomm.org/coordinate-mediation/3.0/recipient"
\* The response type of a recipient query; the source's enum has no member for it.
RECIPIENT_RESPONSE == "https://didcomm.org/coordinate-mediation/3.0/recipient-response"

CoordinateMediation ==
    {MEDIATE_REQUEST, MEDIATE_GRANT, MEDIATE_DENY, RECIPIENT_UPDATE,
     RECIPIENT_UPDATE_RESPONSE, RECIPIENT}

\* JavaScript truthiness of a did-valued field and of an id-valued field.
Truthy(x) == x # Undefined
TruthyId(x) == x > EmptyId

\* ---------------------------------------------------------------- messages
\* Update = {recipient_did, action}
Update == [recipient_did : RecipientDids, action : {"add", "remove"}]

RECURSIVE SeqsUpTo(_, _)
SeqsUpTo(S, n) ==
    IF n = 0 THEN {<<>>}
    ELSE LET shorter == SeqsUpTo(S, n - 1)
         IN  shorter \cup {Append(s, e) : s \in {t \in shorter : Len(t) = n - 1}, e \in S}

\* A message body: null, or an object that may carry routing_did and updates.
Body(isNull, hasRouting, routing, hasUpdates, updates) ==
    [isNull |-> isNull, hasRoutingDid |-> hasRouting, routing_did |-> routing,
     hasUpdates |-> hasUpdates, updates |-> updates]

EmptyBody == Body(FALSE, FALSE, <<>>, FALSE, <<>>)
NullBody == Body(TRUE, FALSE, <<>>, FALSE, <<>>)

Msg(type, from, to, id, thid, body) ==
    [type |-> type, from |-> from, to |-> to, id |-> id, thid |-> thid, body |-> body]

\* "No message": what a lookup or a handler yields when there is nothing.
NoMsg == Msg("none", Undefined, Undefined, NoId, NoId, NullBody)

createMediateRequestMessage(recipientDidUrl, mediatorDidUrl, id) ==
    Msg(MEDIATE_REQUEST, recipientDidUrl, mediatorDidUrl, id, NoId, EmptyBody)

\* Variant: the grant keeps the addressing of the request (from the requester,
\* to the mediator) instead of reversing it.
createMediateGrantMessage_sameAddressing(recipientDidUrl, mediatorDidUrl, thid, id) ==
    Msg(MEDIATE_GRANT, recipientDidUrl, mediatorDidUrl, id, thid,
        Body(FALSE, TRUE, <<mediatorDidUrl>>, FALSE, <<>>))

\* Variant: the grant announces the requester, not the mediator, as routing did.
createMediateGrantMessage_routingRecipient(recipientDidUrl, mediatorDidUrl, thid, id) ==
    Msg(MEDIATE_GRANT, mediatorDidUrl, recipientDidUrl, id, thid,
        Body(FALSE, TRUE, <<recipientDidUrl>>, FALSE, <<>>))

createMediateGrantMessage(recipientDidUrl, mediatorDidUrl, thid, id) ==
    Msg(MEDIATE_GRANT, mediatorDidUrl, recipientDidUrl, id, thid,
        Body(FALSE, TRUE, <<mediatorDidUrl>>, FALSE, <<>>))

createRecipientUpdateMessage(recipientDidUrl, mediatorDidUrl, updates, id) ==
    Msg(RECIPIENT_UPDATE, recipientDidUrl, mediatorDidUrl, id, NoId,
        Body(FALSE, FALSE, <<>>, TRUE, updates))

\* ---------------------------------------------------- DID-document services
\* serviceEndpoint is a string, or an array whose items are strings or
\* {uri: ...} objects.  A string endpoint is kept as a one-item non-array.
EndpointItem(isObj, v) == [isObj |-> isObj, v |-> v]
StringEndpoint(v) == [isArray |-> FALSE, items |-> <<EndpointItem(FALSE, v)>>]
ArrayEndpoint(items) == [isArray |-> TRUE, items |-> items]

Service(id, type, serviceEndpoint) ==
    [id |-> id, type |-> type, serviceEndpoint |-> serviceEndpoint]

NoService == Service("none", "none", ArrayEndpoint(<<>>))

\* The service every test identifier is imported with.
MessagingService == Service("msg1", "DIDCommMessaging", StringEndpoint("http://localhost/messaging"))

\* Metadata entry attached to a message by addMetaData.
MetaData(type, response, service) == [type |-> type, response |-> response, service |-> service]

\* ------------------------------------------------------------------- state
\* ------------------------------------------------------ snap local storage
\* The localStorageKey of the store instances that share one snap state.
StorageKeys == {"veramo-state", "veramo-state-2"}

\* The caches (VeramoJsonCache contents) a store is asked to save.
MaxCaches == 2
Caches == 1..MaxCaches

\* JSON.stringify(newState)
Stringify(newState) == ToString(newState)

\* A save that is not running / one that waits for getSnapState / one that
\* has read the snap state and waits to write it.
IdleSave == [pc |-> "idle", newState |-> 0, snapState |-> <<>>]

VARIABLES
    snapState,       \* snap_manageState: storage key -> stored JSON string, Undefined if absent
    saves,           \* SnapLocalStorageStore.save per store instance (key): where it stands
    policies,        \* store: did -> "ALLOW" | "DENY" | "none" (MediationPolicy rows)
    defaultGrantAll, \* isMediateDefaultGrantAll()
    mediations,      \* store: did -> "GRANTED" | "DENIED" | "none" (MediationRecord rows)
    messages,        \* store: the saved messages (Message repository)
    services,        \* DID manager: did -> sequence of services of the identifier
    recipientDids,   \* store: set of <<did, recipient_did>> rows
    pendingOps,      \* store calls issued by handleRecipientUpdate, not yet settled
    appliedUpdates,  \* the settled promises of appliedUpdates, per request and index
    last,            \* the most recent handle() call: message, metadata, path, outcome
    lastOutcome,     \* per did: answer to its most recent well-formed mediate-request
    nextId           \* next fresh message id

vars == <<snapState, saves, policies, defaultGrantAll, mediations, messages, services, recipientDids,
          pendingOps, appliedUpdates, last, lastOutcome, nextId>>

\* The record of one handle() call.  policy / grantAll / servicesBefore /
\* recipientDidsBefore are the store's content when the call was made.
Handled(msg, fault, metaData, response, path, outcome) ==
    [msg |-> msg, fault |-> fault,
     policy |-> IF msg.from \in DOMAIN policies THEN policies[msg.from] ELSE "none",
     grantAll |-> defaultGrantAll,
     servicesBefore |-> services,
     recipientDidsBefore |-> recipientDids,
     metaData |-> metaData, response |-> response, path |-> path, outcome |-> outcome]

Init ==
    /\ snapState = [k \in StorageKeys |-> Undefined]
    /\ saves = [k \in StorageKeys |-> IdleSave]
    /\ policies = [d \in Dids |-> "none"]
    /\ defaultGrantAll = TRUE
    /\ mediations = [d \in Dids |-> "none"]
    /\ messages = {}
    /\ services = [d \in ManagedDids |-> <<MessagingService>>]
    /\ recipientDids = {}
    /\ pendingOps = <<>>
    /\ appliedUpdates = {}
    /\ last = Handled(NoMsg, "none", <<>>, NoMsg, <<>>, "none")
    /\ lastOutcome = [d \in Dids |-> "none"]
    /\ nextId = 1

\* --------------------------------------------------------- message store
\* Variant: the message is filed under the id of its thread.
dataStoreSaveMessage_keyedByThread(store, message) ==
    {m \in store : m.id # message.thid} \cup {[message EXCEPT !.id = message.thid]}

\* dataStoreSaveMessage: repository save, keyed by the message id.
dataStoreSaveMessage(store, message) ==
    {m \in store : m.id # message.id} \cup {message}

\* dataStoreGetMessage: the stored message, or not_found (NoMsg stands for the throw).
dataStoreGetMessage(store, id) ==
    IF \E m \in store : m.id = id
    THEN CHOOSE m \in store : m.id = id
    ELSE NoMsg

\* Variant: the delete reports true whether or not the message was there.
dataStoreDeleteMessage_alwaysTrue(store, id) ==
    <<TRUE, {m \in store : m.id # id}>>

\* dataStoreDeleteMessage: <<returned boolean, store afterwards>>.
dataStoreDeleteMessage(store, id) ==
    IF \E m \in store : m.id = id
    THEN <<TRUE, {m \in store : m.id # id}>>
    ELSE <<FALSE, store>>

\* ------------------------------------------------------ mediation policies
\* mediationManagerSaveMediationPolicy: at most one row per did, last write wins.
SaveMediationPolicy(did, policy) ==
    /\ policies[did] # policy
    /\ policies' = [policies EXCEPT ![did] = policy]
    /\ UNCHANGED <<snapState, saves, defaultGrantAll, mediations, messages, services, recipientDids,
                   pendingOps, appliedUpdates, last, lastOutcome, nextId>>

\* mediationManagerRemoveMediationPolicy
RemoveMediationPolicy(did) ==
    /\ policies[did] # "none"
    /\ policies' = [policies EXCEPT ![did] = "none"]
    /\ UNCHANGED <<snapState, saves, defaultGrantAll, mediations, messages, services, recipientDids,
                   pendingOps, appliedUpdates, last, lastOutcome, nextId>>

\* isMediateDefaultGrantAll is configuration; a deployment (or a test) overrides it.
SetMediateDefaultGrantAll(flag) ==
    /\ defaultGrantAll # flag
    /\ defaultGrantAll' = flag
    /\ UNCHANGED <<snapState, saves, policies, mediations, messages, services, recipientDids,
                   pendingOps, appliedUpdates, last, lastOutcome, nextId>>

\* An agent saves a message it sends (here: the recipient's mediate-request).
SaveMessage(from, to) ==
    /\ nextId < MaxId
    /\ messages' = dataStoreSaveMessage(messages, createMediateRequestMessage(from, to, nextId))
    /\ nextId' = nextId + 2
    /\ UNCHANGED <<snapState, saves, policies, defaultGrantAll, mediations, services, recipientDids,
                   pendingOps, appliedUpdates, last, lastOutcome>>

\* An agent saves another message it sends: a recipient-update to its mediator.
SaveUpdateMessage(from, to) ==
    /\ nextId < MaxId
    /\ messages' = dataStoreSaveMessage(messages,
          createRecipientUpdateMessage(from, to,
              <<[recipient_did |-> "did:fake:test00", action |-> "add"]>>, nextId))
    /\ nextId' = nextId + 2
    /\ UNCHANGED <<snapState, saves, policies, defaultGrantAll, mediations, services, recipientDids,
                   pendingOps, appliedUpdates, last, lastOutcome>>

\* An agent deletes the message with the given id from its store.
DeleteMessage(id) ==
    /\ messages' = dataStoreDeleteMessage(messages, id)[2]
    /\ UNCHANGED <<snapState, saves, policies, defaultGrantAll, mediations, services, recipientDids,
                   pendingOps, appliedUpdates, last, lastOutcome, nextId>>

\* ------------------------------------------------------------ handler chain
MediatorHandler == "CoordinateMediationMediatorMessageHandler"
RecipientHandler == "CoordinateMediationRecipientMessageHandler"

\* AbstractMessageHandler.handle with no next handler: the message leaves the
\* chain as it is.
EndOfChain == "end_of_chain"
Returned == "returned"

\* ---------------------------------------------------- mediator: mediate-request
\* Variant: the response follows the default flag alone and ignores an ALLOW row.
MediateRequestResponse_flagOnly(message, responseId) ==
    IF defaultGrantAll
    THEN createMediateGrantMessage(message.from, message.to, message.id, responseId)
    ELSE Msg(MEDIATE_DENY, message.to, message.from, responseId, message.id, NullBody)

\* The response handleMediateRequest builds for a well-formed request.
MediateRequestResponse(message, responseId) ==
    createMediateGrantMessage(message.from, message.to, message.id, responseId)

\* Variant: no precondition checks: a request without from or to is answered too.
handleMediateRequest_noChecks(message, responseId, fault) ==
    LET response == MediateRequestResponse(message, responseId)
        attached == <<MetaData("ReturnRouteResponse", response, NoService)>>
    IN  IF fault = "pack"
        THEN [threw |-> TRUE, metaData |-> <<>>, saved |-> {}, response |-> NoMsg]
        ELSE IF fault = "save"
        THEN [threw |-> TRUE, metaData |-> attached, saved |-> {}, response |-> response]
        ELSE [threw |-> FALSE, metaData |-> attached, saved |-> {response}, response |-> response]

\* Variant: a well-formed request gets a grant and a deny attached.
handleMediateRequest_grantAndDeny(message, responseId, fault) ==
    LET response == MediateRequestResponse(message, responseId)
        deny == Msg(MEDIATE_DENY, message.to, message.from, responseId, message.id, NullBody)
        attached == <<MetaData("ReturnRouteResponse", response, NoService),
                      MetaData("ReturnRouteResponse", deny, NoService)>>
    IN  IF ~Truthy(message.from) \/ ~Truthy(message.to)
        THEN [threw |-> TRUE, metaData |-> <<>>, saved |-> {}, response |-> NoMsg]
        ELSE IF fault = "pack"
        THEN [threw |-> TRUE, metaData |-> <<>>, saved |-> {}, response |-> NoMsg]
        ELSE IF fault = "save"
        THEN [threw |-> TRUE, metaData |-> attached, saved |-> {}, response |-> response]
        ELSE [threw |-> FALSE, metaData |-> attached, saved |-> {response}, response |-> response]

\* handleMediateRequest: what it attaches, what it saves, whether it threw.
\* fault: "none", or the agent call that fails ("pack": packDIDCommMessage,
\* "save": dataStoreSaveMessage).
handleMediateRequest(message, responseId, fault) ==
    LET response == MediateRequestResponse(message, responseId)
        attached == <<MetaData("ReturnRouteResponse", response, NoService)>>
    IN  IF ~Truthy(message.from) \/ ~Truthy(message.to)
        THEN [threw |-> TRUE, metaData |-> <<>>, saved |-> {}, response |-> NoMsg]
        ELSE IF fault = "pack"
        THEN [threw |-> TRUE, metaData |-> <<>>, saved |-> {}, response |-> NoMsg]
        ELSE IF fault = "save"
        THEN [threw |-> TRUE, metaData |-> attached, saved |-> {}, response |-> response]
        ELSE [threw |-> FALSE, metaData |-> attached, saved |-> {response}, response |-> response]

\* handle() of the chain for an inbound mediate-request.  A throw inside the
\* mediator handler is caught and the message goes on to super.handle: the
\* recipient handler does not know the type and the chain ends.
HandleMediateRequest(from, to, fault) ==
    /\ nextId < MaxId
    /\ fault # "none" => Truthy(from) /\ Truthy(to)
    /\ LET message == createMediateRequestMessage(from, to, nextId)
           r == handleMediateRequest(message, nextId + 1, fault)
       IN  /\ messages' = IF r.saved = {} THEN messages
                          ELSE dataStoreSaveMessage(messages, CHOOSE m \in r.saved : TRUE)
           /\ last' = Handled(message, fault, r.metaData, r.response,
                              IF r.threw THEN <<MediatorHandler, RecipientHandler>>
                              ELSE <<MediatorHandler>>,
                              IF r.threw THEN EndOfChain ELSE Returned)
           /\ lastOutcome' = IF ~r.threw
                             THEN [lastOutcome EXCEPT ![from] =
                                     IF r.response.type = MEDIATE_GRANT THEN "grant" ELSE "deny"]
                             ELSE lastOutcome
    /\ nextId' = nextId + 2
    /\ UNCHANGED <<snapState, saves, policies, defaultGrantAll, mediations, services, recipientDids,
                   pendingOps, appliedUpdates>>

\* ------------------------------------------------------------- DID manager
\* didManagerAddService: the service replaces one with the same id, else is added.
didManagerAddService(svcs, service) ==
    SelectSeq(svcs, LAMBDA s : s.id # service.id) \o <<service>>

\* didManagerRemoveService: drops the service with the given id.
didManagerRemoveService(svcs, id) ==
    SelectSeq(svcs, LAMBDA s : s.id # id)

\* resolveDid: the DID document lists the identifier's services under "<did>#<id>".
DidDocumentService(did) ==
    IF did \in DOMAIN services
    THEN [i \in 1..Len(services[did]) |->
            Service(did \o "#" \o services[did][i].id, services[did][i].type,
                    services[did][i].serviceEndpoint)]
    ELSE <<>>

\* The owner of an identifier adds a service that points at a mediator directly.
AddService(did, service) ==
    /\ did \in ManagedDids
    /\ service \notin {services[did][i] : i \in 1..Len(services[did])}
    /\ services' = [services EXCEPT ![did] = didManagerAddService(@, service)]
    /\ UNCHANGED <<snapState, saves, policies, defaultGrantAll, mediations, messages, recipientDids,
                   pendingOps, appliedUpdates, last, lastOutcome, nextId>>

\* ------------------------------------------------- recipient: mediate-grant
\* Variant: the endpoint is taken from the last routing did, not the first.
MediatorService_lastRoutingDid(routing_did) ==
    Service("didcomm-mediator", "DIDCommMessaging",
            ArrayEndpoint(<<EndpointItem(TRUE, routing_did[Len(routing_did)])>>))

\* Variant: the service id is made from the routing did, one id per mediator.
MediatorService_idPerRouting(routing_did) ==
    Service("didcomm-mediator-" \o routing_did[1], "DIDCommMessaging",
            ArrayEndpoint(<<EndpointItem(TRUE, routing_did[1])>>))

\* The service a mediate-grant asks for: serviceEndpoint [{uri: routing_did[0]}].
MediatorService(routing_did) ==
    Service("didcomm-mediator", "DIDCommMessaging",
            ArrayEndpoint(<<EndpointItem(TRUE, routing_did[1])>>))

\* Variant: no correlation check: any stored message with id = thid will do.
IsReplyTo_anyParties(prevRequestMsg, message) ==
    prevRequestMsg.id = message.thid

\* prevRequestMsg.from === to && prevRequestMsg.to === from
IsReplyTo(prevRequestMsg, message) ==
    /\ prevRequestMsg.from = message.to
    /\ prevRequestMsg.to = message.from

\* Variant: a grant without routing dids is taken to route through its sender.
GrantedService_senderAsRouting(message) ==
    IF ~Truthy(message.from) \/ ~Truthy(message.to) \/ ~TruthyId(message.thid)
    THEN NoService
    ELSE IF message.body.isNull
    THEN NoService
    ELSE LET routing_did == IF ~message.body.hasRoutingDid \/ Len(message.body.routing_did) = 0
                            THEN <<message.from>>
                            ELSE message.body.routing_did
             prevRequestMsg == dataStoreGetMessage(messages, message.thid)
         IN  IF prevRequestMsg = NoMsg
             THEN NoService
             ELSE IF IsReplyTo(prevRequestMsg, message)
             THEN MediatorService(routing_did)
             ELSE NoService

\* Variant: the grant is accepted without looking up the message it replies to.
GrantedService_noLookup(message) ==
    IF ~Truthy(message.from) \/ ~Truthy(message.to)
    THEN NoService
    ELSE IF message.body.isNull
    THEN NoService
    ELSE IF ~message.body.hasRoutingDid \/ Len(message.body.routing_did) = 0
    THEN NoService
    ELSE MediatorService(message.body.routing_did)

\* The try block of the MEDIATE_GRANT branch: the service to add, or NoService
\* when a precondition throws, the lookup throws or the correlation fails.
GrantedService(message) ==
    IF ~Truthy(message.from) \/ ~Truthy(message.to) \/ ~TruthyId(message.thid)
    THEN NoService
    ELSE IF message.body.isNull
    THEN NoService
    ELSE IF ~message.body.hasRoutingDid \/ Len(message.body.routing_did) = 0
    THEN NoService
    ELSE LET prevRequestMsg == dataStoreGetMessage(messages, message.thid)
         IN  IF prevRequestMsg = NoMsg
             THEN NoService
             ELSE IF IsReplyTo(prevRequestMsg, message)
             THEN MediatorService(message.body.routing_did)
             ELSE NoService

\* handle() of the chain for an inbound mediate-grant: the mediator handler
\* passes it on, the recipient handler returns it.  didManagerAddService
\* throws for a did the agent does not manage; the throw is caught.
HandleMediateGrant(from, to, thid, body) ==
    /\ nextId < MaxId
    /\ LET message == Msg(MEDIATE_GRANT, from, to, nextId, thid, body)
           service == GrantedService(message)
           added == service # NoService /\ to \in ManagedDids
       IN  /\ services' = IF added
                          THEN [services EXCEPT ![to] = didManagerAddService(@, service)]
                          ELSE services
           /\ last' = Handled(message, "none",
                              IF added
                              THEN <<MetaData("DIDCommMessagingServiceAdded", NoMsg, service)>>
                              ELSE <<>>,
                              NoMsg, <<MediatorHandler, RecipientHandler>>, Returned)
    /\ nextId' = nextId + 2
    /\ UNCHANGED <<snapState, saves, policies, defaultGrantAll, mediations, messages, recipientDids,
                   pendingOps, appliedUpdates, lastOutcome>>

\* -------------------------------------------------- recipient: mediate-deny
\* s.serviceEndpoint === from ||
\*   (Array.isArray(s.serviceEndpoint) && s.serviceEndpoint.includes(from))
\* A {uri: ...} object is never equal to the string from.
PointsAt(s, from) ==
    \/ /\ ~s.serviceEndpoint.isArray
       /\ ~s.serviceEndpoint.items[1].isObj
       /\ s.serviceEndpoint.items[1].v = from
    \/ /\ s.serviceEndpoint.isArray
       /\ \E i \in 1..Len(s.serviceEndpoint.items) :
             /\ ~s.serviceEndpoint.items[i].isObj
             /\ s.serviceEndpoint.items[i].v = from

\* Variant: the lookup takes the first service of the document, whatever it
\* points at.
existingService_firstService(svcs, from) ==
    IF Len(svcs) = 0 THEN NoService ELSE svcs[1]

\* did.services.find(...): the first service that points at from, or NoService.
existingService(svcs, from) ==
    LET hits == {i \in 1..Len(svcs) : PointsAt(svcs[i], from)}
    IN  IF hits = {} THEN NoService
        ELSE svcs[CHOOSE i \in hits : \A j \in hits : i <= j]

\* The try block of the MEDIATE_DENY branch: the services of `to` afterwards.
DeniedServices(message) ==
    IF ~Truthy(message.from) \/ ~Truthy(message.to)
    THEN services
    ELSE IF message.to \notin ManagedDids
    THEN services
    ELSE LET found == existingService(services[message.to], message.from)
         IN  IF found = NoService THEN services
             ELSE [services EXCEPT ![message.to] = didManagerRemoveService(@, found.id)]

\* handle() of the chain for an inbound mediate-deny: after its try block the
\* recipient handler goes on to super.handle, and the chain ends.
HandleMediateDeny(from, to) ==
    /\ nextId < MaxId
    /\ LET message == Msg(MEDIATE_DENY, from, to, nextId, NoId, NullBody)
       IN  /\ services' = DeniedServices(message)
           /\ last' = Handled(message, "none", <<>>, NoMsg,
                              <<MediatorHandler, RecipientHandler>>, EndOfChain)
    /\ nextId' = nextId + 2
    /\ UNCHANGED <<snapState, saves, policies, defaultGrantAll, mediations, messages, recipientDids,
                   pendingOps, appliedUpdates, lastOutcome>>

\* ------------------------------------------------- recipient-did registry
\* The did a store call is keyed on: the `did` property of its argument.
ArgDid(args) == IF "did" \in DOMAIN args THEN args.did ELSE Undefined

\* addRecipientDid(did, recipient_did) -> bool(inserted): <<inserted, rows afterwards>>.
dataStoreAddRecipientDid(rows, args) ==
    LET row == <<ArgDid(args), args.recipient_did>>
    IN  <<row \notin rows, rows \cup {row}>>

\* removeRecipientDid(did, recipient_did) -> bool(deleted): <<deleted, rows afterwards>>.
dataStoreRemoveRecipientDid(rows, args) ==
    LET row == <<ArgDid(args), args.recipient_did>>
    IN  <<row \in rows, rows \ {row}>>

\* listRecipientDids(did): the rows registered for did.
dataStoreGetRecipientDids(rows, did) ==
    {row \in rows : row[1] = did}

\* The agent's owner registers / unregisters a recipient_did directly.
AddRecipientDid(did, recipient_did) ==
    /\ pendingOps = <<>>
    /\ <<did, recipient_did>> \notin recipientDids
    /\ recipientDids' =
          dataStoreAddRecipientDid(recipientDids, [did |-> did, recipient_did |-> recipient_did])[2]
    /\ UNCHANGED <<snapState, saves, policies, defaultGrantAll, mediations, messages, services,
                   pendingOps, appliedUpdates, last, lastOutcome, nextId>>

RemoveRecipientDid(did, recipient_did) ==
    /\ pendingOps = <<>>
    /\ <<did, recipient_did>> \in recipientDids
    /\ recipientDids' =
          dataStoreRemoveRecipientDid(recipientDids, [did |-> did, recipient_did |-> recipient_did])[2]
    /\ UNCHANGED <<snapState, saves, policies, defaultGrantAll, mediations, messages, services,
                   pendingOps, appliedUpdates, last, lastOutcome, nextId>>

\* --------------------------------------------- mediator: recipient-update
\* UpdateResult = Update & {result}
UpdateResult(update, result) ==
    [recipient_did |-> update.recipient_did, action |-> update.action, result |-> result]

\* updater.add / updater.remove: the argument they hand to the store.
UpdaterArgs(didDoc, update) ==
    [recipient |-> didDoc, recipient_did |-> update.recipient_did]

\* Variant: the updater reports success whatever the store returned.
UpdaterResult_alwaysSuccess(update, storeResult) ==
    UpdateResult(update, "success")

\* updater[update.action]: the result it returns once the store call settled.
UpdaterResult(update, storeResult) ==
    IF storeResult THEN UpdateResult(update, "success")
    ELSE UpdateResult(update, "no_change")

\* The updates handleRecipientUpdate works on: body.updates, [] by default.
UpdatesOf(message) ==
    IF message.body.hasUpdates THEN message.body.updates ELSE <<>>

\* Variant: the check of `to` is left out.
RecipientUpdateThrows_noToCheck(message) ==
    \/ message.body.isNull
    \/ ~Truthy(message.from)
    \/ Len(UpdatesOf(message)) = 0
    \/ message.from \notin ManagedDids

\* The checks and the didManagerGet of handleRecipientUpdate: does it throw?
RecipientUpdateThrows(message) ==
    \/ message.body.isNull
    \/ ~Truthy(message.from)
    \/ ~Truthy(message.to)
    \/ Len(UpdatesOf(message)) = 0
    \/ message.from \notin ManagedDids

\* appliedUpdates = updates.map(async ...): one store call is started per
\* update, in order; none of them is awaited.
StartedCalls(message) ==
    LET updates == UpdatesOf(message)
    IN  [i \in 1..Len(updates) |->
            [req |-> message.id, idx |-> i, update |-> updates[i],
             args |-> UpdaterArgs(message.from, updates[i])]]

\* return_route of an inbound message: createRecipientUpdateMessage sets
\* 'all'; the mediate-request, grant and deny constructors set none.
ReturnRoute(message) ==
    IF message.type = RECIPIENT_UPDATE THEN "all" ELSE Undefined

\* The response handleRecipientUpdate hands back: it returns the message with
\* nothing attached and builds no response (the source's TODO).
RecipientUpdateResponse(message, responseId) == NoMsg

\* handle() of the chain for an inbound recipient-update.
HandleRecipientUpdate(from, to, body) ==
    /\ nextId < MaxId
    /\ nextId < 2 * MaxUpdateMessages
    /\ Cardinality(appliedUpdates) + Len(pendingOps) + Len(body.updates) <= MaxStoreCalls
    /\ LET message == Msg(RECIPIENT_UPDATE, from, to, nextId, NoId, body)
           threw == RecipientUpdateThrows(message)
           response == IF threw THEN NoMsg ELSE RecipientUpdateResponse(message, nextId + 1)
       IN  /\ pendingOps' = IF threw THEN pendingOps ELSE pendingOps \o StartedCalls(message)
           /\ last' = Handled(message, "none",
                              IF response = NoMsg THEN <<>>
                              ELSE <<MetaData("ReturnRouteResponse", response, NoService)>>,
                              response,
                              IF threw THEN <<MediatorHandler, RecipientHandler>>
                              ELSE <<MediatorHandler>>,
                              IF threw THEN EndOfChain ELSE Returned)
    /\ nextId' = nextId + 2
    /\ UNCHANGED <<snapState, saves, policies, defaultGrantAll, mediations, messages, services,
                   recipientDids, appliedUpdates, lastOutcome>>

\* The sequence without its i-th element.
RemoveAt(seq, i) ==
    [j \in 1..(Len(seq) - 1) |-> IF j < i THEN seq[j] ELSE seq[j + 1]]

\* A started store call settles: the row is written and the promise of
\* appliedUpdates resolves, or the store fails and the promise rejects.  The
\* calls run concurrently, so any of the started ones may settle next.
CompleteStoreOp(i, ok) ==
    /\ i \in 1..Len(pendingOps)
    /\ LET op == pendingOps[i]
           r == IF op.update.action = "add"
                THEN dataStoreAddRecipientDid(recipientDids, op.args)
                ELSE dataStoreRemoveRecipientDid(recipientDids, op.args)
       IN  /\ recipientDids' = IF ok THEN r[2] ELSE recipientDids
           /\ appliedUpdates' = appliedUpdates \cup
                 {[req |-> op.req, idx |-> op.idx,
                   result |-> IF ok THEN UpdaterResult(op.update, r[1])
                              ELSE UpdateResult(op.update, "rejected")]}
    /\ pendingOps' = RemoveAt(pendingOps, i)
    /\ UNCHANGED <<snapState, saves, policies, defaultGrantAll, mediations, messages, services,
                   last, lastOutcome, nextId>>

\* ---------------------------------------------- mediator: recipient query
\* createRecipientQueryMessage, as the repository's test sends it: body {}.
createRecipientQueryMessage(recipientDidUrl, mediatorDidUrl, id) ==
    Msg(RECIPIENT, recipientDidUrl, mediatorDidUrl, id, NoId, EmptyBody)

\* body.dids of a message, [] when the body carries none.
DidsOf(message) ==
    IF "dids" \in DOMAIN message.body THEN message.body.dids ELSE <<>>

\* Variant: the mediator handler keeps a message of a type it has no branch
\* for, and returns it.
HandleRecipientQuery_keptByMediator(from, to) ==
    /\ nextId < MaxId
    /\ LET message == createRecipientQueryMessage(from, to, nextId)
       IN  last' = Handled(message, "none", <<>>, NoMsg, <<MediatorHandler>>, Returned)
    /\ nextId' = nextId + 2
    /\ UNCHANGED <<snapState, saves, policies, defaultGrantAll, mediations, messages, services,
                   recipientDids, pendingOps, appliedUpdates, lastOutcome>>

\* Variant: the query registers a row for its sender.
HandleRecipientQuery_registersSender(from, to) ==
    /\ nextId < MaxId
    /\ LET message == createRecipientQueryMessage(from, to, nextId)
       IN  last' = Handled(message, "none", <<>>, NoMsg,
                           <<MediatorHandler, RecipientHandler>>, EndOfChain)
    /\ recipientDids' = recipientDids \cup {<<from, "did:fake:test00">>}
    /\ nextId' = nextId + 2
    /\ UNCHANGED <<snapState, saves, policies, defaultGrantAll, mediations, messages, services,
                   pendingOps, appliedUpdates, lastOutcome>>

\* Variant: the message is passed on with a metadata entry attached.
HandleRecipientQuery_annotated(from, to) ==
    /\ nextId < MaxId
    /\ LET message == createRecipientQueryMessage(from, to, nextId)
       IN  last' = Handled(message, "none",
                           <<MetaData("ReturnRouteResponse", NoMsg, NoService)>>, NoMsg,
                           <<MediatorHandler, RecipientHandler>>, EndOfChain)
    /\ nextId' = nextId + 2
    /\ UNCHANGED <<snapState, saves, policies, defaultGrantAll, mediations, messages, services,
                   recipientDids, pendingOps, appliedUpdates, lastOutcome>>

\* handle() of the chain for an inbound recipient query: the mediator handler
\* has a branch for mediate-request and recipient-update only, so the message
\* goes to super.handle; the recipient handler has none for it either.
HandleRecipientQuery(from, to) ==
    /\ nextId < MaxId
    /\ LET message == createRecipientQueryMessage(from, to, nextId)
       IN  last' = Handled(message, "none", <<>>, NoMsg,
                           <<MediatorHandler, RecipientHandler>>, EndOfChain)
    /\ nextId' = nextId + 2
    /\ UNCHANGED <<snapState, saves, policies, defaultGrantAll, mediations, messages, services,
                   recipientDids, pendingOps, appliedUpdates, lastOutcome>>

\* ------------------------------------------- SnapLocalStorageStore.save
\* notifyUpdate(_oldState, newState): calls this.save(newState) and does not
\* await it; save starts by asking for the snap state.
NotifyUpdate(key, newState) ==
    /\ saves[key].pc = "idle"
    /\ saves' = [saves EXCEPT ![key] = [pc |-> "get", newState |-> newState, snapState |-> <<>>]]
    /\ UNCHANGED <<snapState, policies, defaultGrantAll, mediations, messages, services,
                   recipientDids, pendingOps, appliedUpdates, last, lastOutcome, nextId>>

\* getSnapState resolves: snap_manageState 'get' returned the state as it is now.
SaveGetSnapState(key) ==
    /\ saves[key].pc = "get"
    /\ saves' = [saves EXCEPT ![key] = [@ EXCEPT !.pc = "update", !.snapState = snapState]]
    /\ UNCHANGED <<snapState, policies, defaultGrantAll, mediations, messages, services,
                   recipientDids, pendingOps, appliedUpdates, last, lastOutcome, nextId>>

\* { ...snapState, [this.localStorageKey]: JSON.stringify(newState) }
newLocalStorageState(key, save) ==
    [save.snapState EXCEPT ![key] = Stringify(save.newState)]

\* snap_manageState 'update' with newLocalStorageState: the whole snap state
\* is replaced.
SaveUpdate(key) ==
    /\ saves[key].pc = "update"
    /\ snapState' = newLocalStorageState(key, saves[key])
    /\ saves' = [saves EXCEPT ![key] = IdleSave]
    /\ UNCHANGED <<policies, defaultGrantAll, mediations, messages, services,
                   recipientDids, pendingOps, appliedUpdates, last, lastOutcome, nextId>>

\* --------------------------------------------------------- specifications
\* Inputs of the inbound messages.
Senders == {RecipientDid, MediatorDid, Undefined}
Faults == {"none", "pack", "save"}

\* thid of an inbound grant: absent, empty, the id of a stored message, or an
\* id no stored message has.
GrantThreadIds == {NoId, EmptyId, MaxId + 1} \cup {m.id : m \in messages}

GrantBodies ==
    {NullBody, EmptyBody,
     Body(FALSE, TRUE, <<>>, FALSE, <<>>),
     Body(FALSE, TRUE, <<MediatorDid>>, FALSE, <<>>),
     Body(FALSE, TRUE, <<ForeignDid, MediatorDid>>, FALSE, <<>>)}

UpdateBodies ==
    {NullBody, EmptyBody} \cup
    {Body(FALSE, FALSE, <<>>, TRUE, u) : u \in SeqsUpTo(Update, MaxUpdates)}

OwnerServices ==
    {Service("mediator", "DIDCommMessaging", StringEndpoint(MediatorDid)),
     Service("mediator-list", "DIDCommMessaging", ArrayEndpoint(<<EndpointItem(FALSE, MediatorDid)>>))}

\* The mediator answering mediate-requests under changing policies.
NextMediate ==
    \/ \E d \in {RecipientDid, MediatorDid}, p \in {"ALLOW", "DENY"} : SaveMediationPolicy(d, p)
    \/ \E d \in {RecipientDid, MediatorDid} : RemoveMediationPolicy(d)
    \/ \E f \in BOOLEAN : SetMediateDefaultGrantAll(f)
    \/ \E from \in Senders, to \in Senders, fault \in Faults :
          HandleMediateRequest(from, to, fault)

SpecMediate == Init /\ [][NextMediate]_vars

\* The inbound mediate-grants tried: complete ones, and ones with a single
\* defect (a missing from, to or thid, an unknown thid, a body without
\* routing dids).
OneGrantDefect(from, to, thid, body) ==
    LET fromOk == Truthy(from)
        toOk == Truthy(to)
        thidOk == \E m \in messages : m.id = thid
        bodyOk == ~body.isNull /\ body.hasRoutingDid /\ Len(body.routing_did) > 0
    IN  \/ fromOk /\ toOk /\ thidOk
        \/ fromOk /\ toOk /\ bodyOk
        \/ fromOk /\ thidOk /\ bodyOk
        \/ toOk /\ thidOk /\ bodyOk

\* The requests the agent has sent and saved: <<from, to>> of the recipient's
\* request to the mediator, and of requests between other parties.
SavedRequests ==
    {<<RecipientDid, MediatorDid>>, <<MediatorDid, MediatorDid>>, <<RecipientDid, RecipientDid>>}

\* <<from, to>> of the inbound mediate-denies tried.
DenyInputs ==
    {<<MediatorDid, RecipientDid>>, <<Undefined, RecipientDid>>, <<MediatorDid, Undefined>>}

\* The recipient reacting to mediate-grant and mediate-deny.
NextRecipient ==
    \/ \E r \in SavedRequests : SaveMessage(r[1], r[2])
    \/ nextId = 1 /\ SaveUpdateMessage(RecipientDid, MediatorDid)
    \/ \E s \in OwnerServices : AddService(RecipientDid, s)
    \/ \E from \in {MediatorDid, Undefined}, to \in {RecipientDid, Undefined},
          thid \in GrantThreadIds, body \in GrantBodies :
          /\ OneGrantDefect(from, to, thid, body)
          /\ HandleMediateGrant(from, to, thid, body)
    \/ \E in \in DenyInputs : HandleMediateDeny(in[1], in[2])

SpecRecipient == Init /\ [][NextRecipient]_vars

\* The inbound recipient-updates tried: <<from, to, body>> of well-formed
\* ones, and of ones with a single defect (a missing field, a sender the
\* agent does not hold, a body without updates).
UpdateInputs ==
    LET oneAdd == Body(FALSE, FALSE, <<>>, TRUE,
                       <<[recipient_did |-> "did:fake:test00", action |-> "add"]>>)
    IN  {<<RecipientDid, MediatorDid, body>> : body \in UpdateBodies} \cup
        {<<ForeignDid, MediatorDid, oneAdd>>, <<Undefined, MediatorDid, oneAdd>>,
         <<RecipientDid, Undefined, oneAdd>>}

\* The dids that query the mediator for their registrations.
QuerySenders == {RecipientDid}

\* The mediator keeping the recipient-did registry.  The registry may hold
\* rows of the recipient before the first recipient-update arrives; the store
\* serves the calls in the order they were started.
NextUpdate ==
    \/ \E x \in RecipientDids : nextId = 1 /\ AddRecipientDid(RecipientDid, x)
    \/ \E x \in RecipientDids : nextId = 1 /\ RemoveRecipientDid(RecipientDid, x)
    \/ \E in \in UpdateInputs : HandleRecipientUpdate(in[1], in[2], in[3])
    \/ \E from \in QuerySenders :
          /\ nextId < 2 * MaxUpdateMessages
          /\ HandleRecipientQuery(from, MediatorDid)
    \/ \E from \in QuerySenders :
          /\ nextId < 2 * MaxUpdateMessages
          /\ HandleMediateRequest(from, MediatorDid, "none")
    \/ CompleteStoreOp(1, TRUE)

SpecUpdate == Init /\ [][NextUpdate]_vars

\* Recipient-updates of one recipient handled concurrently: a message is
\* taken up while store calls of earlier ones are in flight, the started
\* calls settle in any order, and one of them may fail.
NextConcurrent ==
    \/ \E body \in UpdateBodies :
          /\ Len(body.updates) > 0
          /\ HandleRecipientUpdate(RecipientDid, MediatorDid, body)
    \/ \E i \in 1..MaxStoreCalls, ok \in BOOLEAN :
          /\ ~ok => \A a \in appliedUpdates : a.result.result # "rejected"
          /\ CompleteStoreOp(i, ok)

SpecConcurrent == Init /\ [][NextConcurrent]_vars

\* The message store on its own: the agent saves requests and updates it
\* sends, the mediator saves its responses, and messages are deleted by id.
NextStore ==
    \/ \E r \in SavedRequests : SaveMessage(r[1], r[2])
    \/ SaveUpdateMessage(RecipientDid, MediatorDid)
    \/ HandleMediateRequest(RecipientDid, MediatorDid, "none")
    \/ \E id \in 1..MaxId : DeleteMessage(id)

SpecStore == Init /\ [][NextStore]_vars

\* Store instances with different keys saving into one snap state.
NextSnap ==
    \/ \E key \in StorageKeys, newState \in Caches : NotifyUpdate(key, newState)
    \/ \E key \in StorageKeys : SaveGetSnapState(key)
    \/ \E key \in StorageKeys : SaveUpdate(key)

SpecSnap == Init /\ [][NextSnap]_vars

Next == NextMediate \/ NextRecipient \/ NextUpdate \/ NextConcurrent \/ NextStore \/ NextSnap

Spec == Init /\ [][Next]_vars

\* ------------------------------------------------------------------ claims
\* The last handle() call was a mediate-request with from and to, and no
\* agent call failed while it was handled.
WellFormedRequest ==
    /\ last.msg.type = MEDIATE_REQUEST
    /\ Truthy(last.msg.from)
    /\ Truthy(last.msg.to)
    /\ last.fault = "none"

\* The response to the last mediate-request is a mediate-deny with
\* thid = request id and body = null.
AnsweredWithDeny ==
    /\ last.response.type = MEDIATE_DENY
    /\ last.response.thid = last.msg.id
    /\ last.response.body = NullBody

\* C1: a mediate-request from a did whose stored policy is DENY (whatever the
\* default flag) is answered with a mediate-deny with thid = request id and
\* body = null, never with a mediate-grant.
C1_DenyPolicyYieldsDeny ==
    (WellFormedRequest /\ last.policy = "DENY") => AnsweredWithDeny

\* C2: a mediate-request from a did with no stored policy, addressed to
\* mediator M while the default flag is true, is answered with a
\* mediate-grant whose body.routing_did is exactly [M].
C2_DefaultGrantRoutesToMediator ==
    (WellFormedRequest /\ last.policy = "none" /\ last.grantAll) =>
        /\ last.response.type = MEDIATE_GRANT
        /\ last.response.body.hasRoutingDid
        /\ last.response.body.routing_did = <<last.msg.to>>

\* C2 happens: a policy-less recipient asked the mediator under the default flag.
C2_Witness ==
    /\ WellFormedRequest /\ last.policy = "none" /\ last.grantAll
    /\ last.msg.from = RecipientDid
    /\ last.msg.to = MediatorDid
    /\ last.response.body.routing_did = <<MediatorDid>>

\* C3: a mediate-request from a did with no stored ALLOW policy, while the
\* default flag is false, is answered with a mediate-deny (thid = request id,
\* body = null) and not with a mediate-grant.
C3_NoAllowAndFlagOffYieldsDeny ==
    (WellFormedRequest /\ last.policy # "ALLOW" /\ ~last.grantAll) => AnsweredWithDeny

\* C4: a mediate-request from a did whose stored policy is ALLOW is answered
\* with a mediate-grant, also when the default flag is false.
C4_AllowPolicyYieldsGrant ==
    (WellFormedRequest /\ last.policy = "ALLOW") => last.response.type = MEDIATE_GRANT

\* C4 happens: an ALLOW did was granted while the default flag was false.
C4_Witness ==
    /\ WellFormedRequest /\ last.policy = "ALLOW" /\ ~last.grantAll
    /\ last.response.type = MEDIATE_GRANT
    /\ last.response.thid = last.msg.id

\* C5: the stored mediation status of each did is the outcome of its most
\* recently processed well-formed mediate-request: GRANTED after a grant,
\* DENIED after a deny, absent only if there was none (one row per did).
C5_StatusFollowsLastRequest ==
    \A d \in Dids :
        /\ lastOutcome[d] = "grant" => mediations[d] = "GRANTED"
        /\ lastOutcome[d] = "deny" => mediations[d] = "DENIED"
        /\ lastOutcome[d] = "none" => mediations[d] = "none"

\* The grant replies to a stored message this agent sent to the granting party.
CorrelatedGrant(message) ==
    /\ message.type = MEDIATE_GRANT
    /\ Truthy(message.from) /\ Truthy(message.to)
    /\ ~message.body.isNull /\ message.body.hasRoutingDid
    /\ Len(message.body.routing_did) > 0
    /\ \E m \in messages : m.id = message.thid /\ m.from = message.to /\ m.to = message.from

\* The services of did's DID document.
DidDocumentServices(did) ==
    {DidDocumentService(did)[i] : i \in 1..Len(DidDocumentService(did))}

\* C6: after the recipient handler processed a mediate-grant (from M, to R,
\* non-empty routing_did) whose thid is the id of a stored message from R to
\* M, R's DID document has the service "<R>#didcomm-mediator" of type
\* DIDCommMessaging with serviceEndpoint [{uri: routing_did[0]}].
C6_GrantAddsMediatorService ==
    CorrelatedGrant(last.msg) =>
        Service(last.msg.to \o "#didcomm-mediator", "DIDCommMessaging",
                ArrayEndpoint(<<EndpointItem(TRUE, last.msg.body.routing_did[1])>>))
            \in DidDocumentServices(last.msg.to)

\* C6 happens: a correlated grant with two routing dids was handled.
C6_Witness ==
    /\ CorrelatedGrant(last.msg)
    /\ last.msg.from = MediatorDid
    /\ last.msg.to = RecipientDid
    /\ Len(last.msg.body.routing_did) = 2
    /\ Len(last.metaData) = 1

\* C7: if a mediate-grant from M added the service "<R>#didcomm-mediator" with
\* serviceEndpoint [{uri: M}] to R's DID document, then after the recipient
\* handler processed a later mediate-deny from M to R that service is gone.
C7_DenyRemovesGrantedService ==
    ( /\ last.msg.type = MEDIATE_DENY
      /\ Truthy(last.msg.from) /\ Truthy(last.msg.to)
      /\ last.msg.to \in DOMAIN last.servicesBefore
      /\ \E i \in 1..Len(last.servicesBefore[last.msg.to]) :
            last.servicesBefore[last.msg.to][i] = MediatorService(<<last.msg.from>>) )
    => \A s \in DidDocumentServices(last.msg.to) :
            s.id # last.msg.to \o "#didcomm-mediator"

\* This step is a handle() call (last' is the call it made).
HandleStep == last'.msg.id = nextId /\ nextId' = nextId + 2

\* C8: a mediate-grant whose thid is empty, absent, or not the id of any
\* stored message never changes the recipient's DID document.
C8_UnknownThreadLeavesServices ==
    [][ ( /\ HandleStep
          /\ last'.msg.type = MEDIATE_GRANT
          /\ \A m \in messages : m.id # last'.msg.thid )
        => services' = services ]_vars

\* C8 happens: a stored request from R to M exists, and a grant from M to R
\* with a routing did but a thid no stored message has was handled.
C8_Witness ==
    /\ last.msg.type = MEDIATE_GRANT
    /\ last.msg.from = MediatorDid /\ last.msg.to = RecipientDid
    /\ last.msg.body.hasRoutingDid /\ Len(last.msg.body.routing_did) > 0
    /\ last.msg.thid = MaxId + 1
    /\ \E m \in messages : m.from = RecipientDid /\ m.to = MediatorDid
    /\ last.metaData = <<>>

\* The last handle() call was a recipient-update with from, to and updates.
WellFormedUpdate ==
    /\ last.msg.type = RECIPIENT_UPDATE
    /\ Truthy(last.msg.from) /\ Truthy(last.msg.to)
    /\ ~last.msg.body.isNull /\ last.msg.body.hasUpdates
    /\ Len(last.msg.body.updates) > 0
    /\ last.msg.from \in ManagedDids

\* The registry rows of did after the first n updates were applied in order.
RECURSIVE RowsAfter(_, _, _, _)
RowsAfter(rows, did, updates, n) ==
    IF n = 0 THEN rows
    ELSE LET before == RowsAfter(rows, did, updates, n - 1)
             row == <<did, updates[n].recipient_did>>
         IN  IF updates[n].action = "add" THEN before \cup {row} ELSE before \ {row}

\* C9: the result of an update entry is success exactly when the registry's
\* membership of (did, recipient_did) changed and no_change exactly when the
\* action was a no-op; so adding twice, or removing twice, yields success
\* then no_change.
C9_ResultTellsMembershipChange ==
    WellFormedUpdate =>
        /\ last.response.type = RECIPIENT_UPDATE_RESPONSE
        /\ Len(last.response.body.updates) = Len(last.msg.body.updates)
        /\ \A i \in 1..Len(last.msg.body.updates) :
              LET updates == last.msg.body.updates
                  before == RowsAfter(last.recipientDidsBefore, last.msg.from, updates, i - 1)
                  after == RowsAfter(last.recipientDidsBefore, last.msg.from, updates, i)
              IN  last.response.body.updates[i].result =
                      IF before # after THEN "success" ELSE "no_change"

\* C10: the response to a recipient-update with updates [u1..un] lists
\* exactly n results, the i-th carrying the recipient_did and action of ui.
C10_ResultsInRequestOrder ==
    WellFormedUpdate =>
        /\ last.response.type = RECIPIENT_UPDATE_RESPONSE
        /\ Len(last.response.body.updates) = Len(last.msg.body.updates)
        /\ \A i \in 1..Len(last.msg.body.updates) :
              /\ last.response.body.updates[i].recipient_did =
                    last.msg.body.updates[i].recipient_did
              /\ last.response.body.updates[i].action = last.msg.body.updates[i].action

\* The response answers the request: from = request.to, to = request.from and
\* thid = request.id.
AnswersRequest(response, request) ==
    /\ response.from = request.to
    /\ response.to = request.from
    /\ response.thid = request.id

\* C11: a recipient-update with from, to and a non-empty updates list makes the
\* mediator produce one recipient-update-response with from = request.to,
\* to = request.from and thid = request.id.
C11_UpdateIsAnswered ==
    WellFormedUpdate =>
        /\ last.response.type = RECIPIENT_UPDATE_RESPONSE
        /\ AnswersRequest(last.response, last.msg)
        /\ Len(last.metaData) = 1
        /\ last.metaData[1].response = last.response

\* C12: a recipient query from did is answered with a recipient-response whose
\* body.dids lists exactly the rows registered for did when the query was
\* handled: none of another did, each once, [] when there are none.
C12_QueryListsRegisteredDids ==
    (last.msg.type = RECIPIENT /\ Truthy(last.msg.from) /\ Truthy(last.msg.to)) =>
        LET dids == DidsOf(last.response)
            rows == dataStoreGetRecipientDids(last.recipientDidsBefore, last.msg.from)
        IN  /\ last.response.type = RECIPIENT_RESPONSE
            /\ {dids[i] : i \in 1..Len(dids)} = rows
            /\ Len(dids) = Cardinality(rows)

\* The types of the messages the mediator answers with.
ResponseTypes == {MEDIATE_GRANT, MEDIATE_DENY, RECIPIENT_UPDATE_RESPONSE, RECIPIENT_RESPONSE}

\* C13: every response the mediator emits (mediate-grant, mediate-deny,
\* recipient-update-response, recipient-response), returned or attached as
\* return-route metadata, has thid = id of the request that triggered it,
\* from = that request's to and to = that request's from.
C13_ResponsesAnswerTheirRequest ==
    /\ last.response.type \in ResponseTypes => AnswersRequest(last.response, last.msg)
    /\ \A i \in 1..Len(last.metaData) :
          last.metaData[i].type = "ReturnRouteResponse" =>
              /\ last.metaData[i].response.type \in ResponseTypes
              /\ AnswersRequest(last.metaData[i].response, last.msg)

\* C13 happens: the second request of a behaviour, from the recipient to the
\* mediator, was answered with a grant from the mediator to the recipient.
C13_Witness ==
    /\ WellFormedRequest
    /\ last.msg.id = 3
    /\ last.msg.from = RecipientDid /\ last.msg.to = MediatorDid
    /\ last.response.type = MEDIATE_GRANT
    /\ last.response.from = MediatorDid /\ last.response.to = RecipientDid
    /\ last.response.thid = 3
    /\ Len(last.metaData) = 1

\* Every store call started so far has settled, and none of them failed.
StoreCallsSettled ==
    /\ pendingOps = <<>>
    /\ \A a \in appliedUpdates : a.result.result # "rejected"

\* C14: after the mediator handled a recipient-update from did (and the store
\* calls it started have settled), the registry rows of did are the rows it
\* had before with the message's updates applied in order: (did, x) is there
\* after an add of x and gone after a remove of x.
C14_RegistryFollowsUpdates ==
    (WellFormedUpdate /\ StoreCallsSettled) =>
        LET did == last.msg.from
            updates == last.msg.body.updates
        IN  dataStoreGetRecipientDids(recipientDids, did) =
            dataStoreGetRecipientDids(
                RowsAfter(last.recipientDidsBefore, did, updates, Len(updates)), did)

\* The message lacks from, to or thid, or its body has no routing_did or an
\* empty one.
MalformedGrant(message) ==
    \/ ~Truthy(message.from)
    \/ ~Truthy(message.to)
    \/ ~TruthyId(message.thid)
    \/ message.body.isNull
    \/ ~message.body.hasRoutingDid
    \/ Len(message.body.routing_did) = 0

\* C15: handling a mediate-grant that lacks from, to or thid, or whose
\* body.routing_did is missing or empty, leaves every DID document as it was,
\* and the handle() call returns the message: no error reaches its caller.
C15_MalformedGrantIgnored ==
    [][ ( /\ HandleStep
          /\ last'.msg.type = MEDIATE_GRANT
          /\ MalformedGrant(last'.msg) )
        => /\ services' = services
           /\ last'.metaData = <<>>
           /\ last'.outcome = Returned ]_vars

\* C15 happens: a grant from M to R that replies to a stored request from R
\* to M, but carries an empty routing_did, was handled and returned.
C15_Witness ==
    /\ last.msg.type = MEDIATE_GRANT
    /\ last.msg.from = MediatorDid /\ last.msg.to = RecipientDid
    /\ \E m \in messages :
          m.id = last.msg.thid /\ m.from = RecipientDid /\ m.to = MediatorDid
    /\ last.msg.body.hasRoutingDid /\ Len(last.msg.body.routing_did) = 0
    /\ last.outcome = Returned
    /\ services = last.servicesBefore

\* C16: the recipient handler adds the mediator service for a mediate-grant
\* only if the stored message with id = grant.thid has from = grant.to and
\* to = grant.from; when that message exists but one of the two equalities
\* fails, every DID document stays as it was.
C16_UncorrelatedGrantLeavesServices ==
    [][ ( HandleStep /\ last'.msg.type = MEDIATE_GRANT )
        => /\ (services' # services \/ last'.metaData # <<>>) =>
                 \E m \in messages :
                    /\ m.id = last'.msg.thid
                    /\ m.from = last'.msg.to
                    /\ m.to = last'.msg.from
           /\ (\E m \in messages :
                  /\ m.id = last'.msg.thid
                  /\ (m.from # last'.msg.to \/ m.to # last'.msg.from)) =>
                 (services' = services /\ last'.metaData = <<>>) ]_vars

\* C16 happens: a grant from M to R with a routing did was handled, whose thid
\* is the id of a stored message that R did not send to M.
C16_Witness ==
    /\ last.msg.type = MEDIATE_GRANT
    /\ last.msg.from = MediatorDid /\ last.msg.to = RecipientDid
    /\ last.msg.body.hasRoutingDid /\ Len(last.msg.body.routing_did) > 0
    /\ \E m \in messages :
          /\ m.id = last.msg.thid
          /\ m.to = MediatorDid
          /\ m.from # RecipientDid
    /\ last.metaData = <<>>
    /\ services = last.servicesBefore

\* The settled store calls for recipient_did x with the given action and result.
SettledResults(x, action, result) ==
    {a \in appliedUpdates :
        /\ a.result.recipient_did = x
        /\ a.result.action = action
        /\ a.result.result = result}

C18_MalformedRequestConfined ==
    [][ ( HandleStep /\ last'.msg.type = MEDIATE_REQUEST )
        => /\ (~Truthy(last'.msg.from) \/ ~Truthy(last'.msg.to)) =>
                 /\ last'.response = NoMsg
                 /\ last'.metaData = <<>>
                 /\ mediations' = mediations
                 /\ messages' = messages
           /\ ( /\ last.msg.type = MEDIATE_REQUEST
                /\ (~Truthy(last.msg.from) \/ ~Truthy(last.msg.to))
                /\ Truthy(last'.msg.from) /\ Truthy(last'.msg.to)
                /\ last'.fault = "none" ) =>
                 /\ last'.response.type \in {MEDIATE_GRANT, MEDIATE_DENY}
                 /\ AnswersRequest(last'.response, last'.msg)
                 /\ Len(last'.metaData) = 1
                 /\ last'.response \in messages'
                 /\ last'.outcome = Returned ]_vars

\* C18 happens: after a request was answered and its response saved, a
\* mediate-request without from was handled: it went through the chain
\* unanswered and the saved response is still the only stored message.
C18_Witness ==
    /\ last.msg.type = MEDIATE_REQUEST
    /\ ~Truthy(last.msg.from) /\ last.msg.to = MediatorDid
    /\ last.response = NoMsg /\ last.metaData = <<>>
    /\ last.path = <<MediatorHandler, RecipientHandler>>
    /\ last.outcome = EndOfChain
    /\ Cardinality(messages) = 1
    /\ mediations = [d \in Dids |-> "none"]

\* The message lacks from or to, or its body has no updates or an empty list.
MalformedUpdate(message) ==
    \/ ~Truthy(message.from)
    \/ ~Truthy(message.to)
    \/ message.body.isNull
    \/ ~message.body.hasUpdates
    \/ Len(message.body.updates) = 0

\* C19: a recipient-update that lacks from or to, or whose body.updates is
\* missing or empty, fails inside the mediator handler: it starts no store
\* call, the registry stays as it was, and no recipient-update-response is
\* produced.
C19_MalformedUpdateRejected ==
    [][ ( /\ HandleStep
          /\ last'.msg.type = RECIPIENT_UPDATE
          /\ MalformedUpdate(last'.msg) )
        => /\ recipientDids' = recipientDids
           /\ pendingOps' = pendingOps
           /\ last'.response = NoMsg
           /\ last'.metaData = <<>>
           /\ last'.outcome = EndOfChain ]_vars

\* C19 happens: a recipient-update from the recipient with one add but
\* without to was handled: nothing was started and nothing answered.
C19_Witness ==
    /\ last.msg.type = RECIPIENT_UPDATE
    /\ last.msg.from = RecipientDid /\ ~Truthy(last.msg.to)
    /\ last.msg.body.hasUpdates /\ Len(last.msg.body.updates) = 1
    /\ pendingOps = <<>> /\ appliedUpdates = {}
    /\ recipientDids = last.recipientDidsBefore
    /\ last.response = NoMsg
    /\ last.outcome = EndOfChain

\* C20: every update of a recipient-update batch ends with a result of its
\* own: success or no_change when its store call went through, server_error
\* when the store call failed; a failed call leaves no update without result.
C20_FailedUpdateIsServerError ==
    \A a \in appliedUpdates :
        a.result.result \in {"success", "no_change", "server_error"}

\* C21: when a store call fails while a mediate-request is processed, no
\* grant or deny response is attached to the inbound message, and handle
\* ends with an error for its caller instead of handing the message on.
C21_StoreFaultSurfaces ==
    ( /\ last.msg.type = MEDIATE_REQUEST
      /\ last.fault = "save" )
    => /\ last.metaData = <<>>
       /\ last.outcome \notin {Returned, EndOfChain}

\* The types the two handlers have a branch for.
MediatorTypes == {MEDIATE_REQUEST, RECIPIENT_UPDATE}
RecipientTypes == {MEDIATE_GRANT, MEDIATE_DENY}

\* C22: a message of a type neither handler recognizes is passed from the
\* mediator handler to the recipient handler and on to the end of the chain,
\* with no metadata added and with policies, mediation records, registry
\* (and the store calls in flight), saved messages and DID documents as
\* they were.
C22_UnknownTypeForwardedUnchanged ==
    [][ ( /\ HandleStep
          /\ last'.msg.type \notin MediatorTypes \cup RecipientTypes )
        => /\ last'.path = <<MediatorHandler, RecipientHandler>>
           /\ last'.outcome = EndOfChain
           /\ last'.metaData = <<>>
           /\ last'.response = NoMsg
           /\ UNCHANGED <<policies, defaultGrantAll, mediations, messages, services,
                          recipientDids, pendingOps, appliedUpdates>> ]_vars

\* C22 happens: with a row in the registry and a store call of an earlier
\* recipient-update still in flight, a recipient query (a type without a
\* branch) went through both handlers.
C22_Witness ==
    /\ last.msg.type = RECIPIENT
    /\ last.path = <<MediatorHandler, RecipientHandler>>
    /\ last.outcome = EndOfChain
    /\ last.metaData = <<>>
    /\ recipientDids # {}
    /\ Len(pendingOps) > 0

\* C23: a message whose type a handler recognizes ends at that handler: the
\* mediator handler keeps mediate-requests and recipient-updates, the
\* recipient handler keeps mediate-grants and mediate-denies; none of them
\* is handed on to the rest of the chain, whether its handling failed or not.
C23_RecognizedMessageEndsAtHandler ==
    /\ last.msg.type \in MediatorTypes => last.path = <<MediatorHandler>>
    /\ last.msg.type \in RecipientTypes =>
          /\ last.path = <<MediatorHandler, RecipientHandler>>
          /\ last.outcome # EndOfChain

\* The responses attached to the handled message as return-route metadata.
AttachedResponses(h) ==
    {h.metaData[i].response : i \in {j \in 1..Len(h.metaData) :
                                        h.metaData[j].type = "ReturnRouteResponse"}}

\* C24: when handle has dealt with a mediate-request (no agent call
\* failing), a request with from and to carries exactly one response, a
\* mediate-grant or a mediate-deny that answers it, and handle returned the
\* message; a request without from or to carries no response at all, and
\* handle still ended without an error.
C24_OneResponseOrNone ==
    [][ ( /\ HandleStep
          /\ last'.msg.type = MEDIATE_REQUEST
          /\ last'.fault = "none" )
        => IF Truthy(last'.msg.from) /\ Truthy(last'.msg.to)
           THEN /\ Len(last'.metaData) = 1
                /\ AttachedResponses(last') = {last'.response}
                /\ last'.response.type \in {MEDIATE_GRANT, MEDIATE_DENY}
                /\ AnswersRequest(last'.response, last'.msg)
                /\ last'.outcome = Returned
           ELSE /\ last'.metaData = <<>>
                /\ last'.response = NoMsg
                /\ messages' = messages
                /\ last'.outcome = EndOfChain ]_vars

\* C24 happens: the mediator answered a request sent to it by itself
\* (from = to = mediator) with one response, after an earlier request
\* without from had gone unanswered, so that one stored response exists.
C24_Witness ==
    /\ last.msg.type = MEDIATE_REQUEST
    /\ last.msg.from = MediatorDid /\ last.msg.to = MediatorDid
    /\ last.msg.id = 3
    /\ last.fault = "none"
    /\ Len(last.metaData) = 1
    /\ last.response.type \in {MEDIATE_GRANT, MEDIATE_DENY}
    /\ messages = {last.response}

\* C25: after a mediate-request was processed, its response is attached to
\* the inbound message as ReturnRouteResponse metadata, and the message
\* store returns that response for the response's own id, with the id of
\* the request as its thread id.
C25_ResponseAttachedAndStored ==
    WellFormedRequest =>
        LET stored == dataStoreGetMessage(messages, last.response.id)
        IN  /\ Len(last.metaData) = 1
            /\ last.metaData[1].type = "ReturnRouteResponse"
            /\ last.metaData[1].response = last.response
            /\ stored = last.response
            /\ stored.id # last.msg.id
            /\ stored.thid = last.msg.id

\* C25 happens: a second request was processed; the store holds the two
\* responses, and the lookup by the id of the later one returns it.
C25_Witness ==
    /\ WellFormedRequest
    /\ last.msg.from = RecipientDid /\ last.msg.to = MediatorDid
    /\ Cardinality(messages) = 2
    /\ dataStoreGetMessage(messages, last.response.id).thid = last.msg.id
    /\ \E m \in messages : m.id # last.response.id /\ m.thid # last.msg.id

\* C26: a recipient-update that asks for return_route = all is answered on
\* the spot: when handle is done, the inbound message carries the
\* recipient-update-response as return-route metadata.
C26_ReturnRouteAnsweredInline ==
    ( /\ WellFormedUpdate
      /\ ReturnRoute(last.msg) = "all" )
    => /\ AttachedResponses(last) # {}
       /\ \A r \in AttachedResponses(last) : r.type = RECIPIENT_UPDATE_RESPONSE

\* The response type the admission rule gives for a policy row and a flag:
\* ALLOW grants, DENY denies, no row follows the default flag.
AdmissionFor(policy, grantAll) ==
    IF policy = "ALLOW" THEN MEDIATE_GRANT
    ELSE IF policy = "DENY" THEN MEDIATE_DENY
    ELSE IF grantAll THEN MEDIATE_GRANT ELSE MEDIATE_DENY

\* C27: when the policy of a did was changed between two of its
\* mediate-requests, the second one is decided by the policy row and the
\* default flag as they are when it is handled, whatever the first outcome.
C27_DecisionFollowsCurrentPolicy ==
    [][ ( /\ WellFormedRequest
          /\ HandleStep
          /\ last'.msg.type = MEDIATE_REQUEST
          /\ last'.fault = "none"
          /\ Truthy(last'.msg.to)
          /\ last'.msg.from = last.msg.from
          /\ last'.policy # last.policy )
        => last'.response.type = AdmissionFor(last'.policy, last'.grantAll) ]_vars

\* C28: a mediate-deny with from and to, handled while no service of the
\* recipient's DID document has from as (or in) its serviceEndpoint, leaves
\* the document as it is; and whatever the document, handling the same deny
\* once more right away would change nothing further.
C28_DenyIsIdempotent ==
    [][ ( /\ HandleStep
          /\ last'.msg.type = MEDIATE_DENY
          /\ Truthy(last'.msg.from)
          /\ last'.msg.to \in ManagedDids )
        => /\ existingService(services[last'.msg.to], last'.msg.from) = NoService
                 => services' = services
           /\ (DeniedServices(last.msg))' = services' ]_vars

\* C29: once handle has returned for a well-formed recipient-update, none of
\* the store calls of that batch is still to take effect.
C29_UpdatesAppliedOnReturn ==
    ( /\ WellFormedUpdate
      /\ last.outcome = Returned )
    => \A i \in 1..Len(pendingOps) : pendingOps[i].req # last.msg.id

\* C30: a store call started by a recipient-update adds a row to the
\* registry only if the mediation status of the did that sent the update
\* is GRANTED; an update from a did with status DENIED or with no status
\* adds nothing.
C30_RegistryIsConsentGated ==
    [][ ( /\ Len(pendingOps) > 0
          /\ pendingOps' = Tail(pendingOps)
          /\ recipientDids' \ recipientDids # {} )
        => mediations[pendingOps[1].args.recipient] = "GRANTED" ]_vars

\* The rows that differ between two registries.
ChangedRows(before, after) == (before \ after) \cup (after \ before)

C32_OnlyRequestsCorrelate ==
    [][ ( /\ HandleStep
          /\ last'.msg.type = MEDIATE_GRANT
          /\ \E m \in messages : /\ m.id = last'.msg.thid
                                 /\ m.type # MEDIATE_REQUEST )
        => services' = services ]_vars

\* The positions of the services with the given id in did's service list.
ServicesWithId(did, id) ==
    {i \in 1..Len(services[did]) : services[did][i].id = id}

C34_DenyRemovesOnePointingService ==
    [][ ( /\ HandleStep
          /\ last'.msg.type = MEDIATE_DENY )
        => \/ services' = services
           \/ /\ last'.msg.to \in ManagedDids
              /\ \A d \in ManagedDids \ {last'.msg.to} : services'[d] = services[d]
              /\ \E i \in 1..Len(services[last'.msg.to]) :
                    /\ PointsAt(services[last'.msg.to][i], last'.msg.from)
                    /\ services'[last'.msg.to] = RemoveAt(services[last'.msg.to], i) ]_vars

\* C34 happens: the recipient's document had its messaging service, a
\* granted didcomm-mediator service and two services pointing at the
\* mediator; the deny from the mediator took out one of the two and left
\* the other three.
C34_Witness ==
    /\ last.msg.type = MEDIATE_DENY
    /\ last.msg.from = MediatorDid /\ last.msg.to = RecipientDid
    /\ Len(last.servicesBefore[RecipientDid]) = 4
    /\ Len(services[RecipientDid]) = 3
    /\ \E i \in 1..3 : services[RecipientDid][i] = MessagingService
    /\ \E i \in 1..3 : services[RecipientDid][i].id = "didcomm-mediator"
    /\ \E i \in 1..3 : PointsAt(services[RecipientDid][i], MediatorDid)

\* C35: handling a recipient query leaves policies, mediation records, the
\* registry (and the store calls in flight) and the DID documents as they
\* were; handling a mediate-request leaves the registry and the store calls
\* in flight as they were.
C35_QueryAndRequestLeaveRegistry ==
    [][ HandleStep
        => /\ last'.msg.type = RECIPIENT =>
                 UNCHANGED <<policies, defaultGrantAll, mediations, services,
                             recipientDids, pendingOps, appliedUpdates>>
           /\ last'.msg.type = MEDIATE_REQUEST =>
                 UNCHANGED <<recipientDids, pendingOps, appliedUpdates>> ]_vars

\* C35 happens: with a row in the registry and a store call still in
\* flight, a mediate-request was answered and its response saved.
C35_Witness ==
    /\ WellFormedRequest
    /\ last.response \in messages
    /\ recipientDids # {}
    /\ recipientDids = last.recipientDidsBefore
    /\ Len(pendingOps) > 0

StorableMessages ==
    {createMediateRequestMessage(from, to, id) :
        from \in {RecipientDid, MediatorDid}, to \in {MediatorDid}, id \in 1..MaxId}

C38_SaveKeepsOtherKeys ==
    [][ \A key \in StorageKeys :
           ( /\ saves[key].pc = "update"
             /\ saves'[key].pc = "idle" )
           => \A other \in StorageKeys \ {key} : snapState'[other] = snapState[other] ]_vars

====
